---- MODULE Spec2Model ----
(***************************************************************************)
(* Model of src/src/index.ts: confirmTransaction (the confirmation poll    *)
(* loop) and sendAndConfirmTransaction (fetch blockhash, sign, submit,     *)
(* confirm).  One step of the model is the code that runs between two      *)
(* awaits; the network (status, height, failures) and the wall clock are   *)
(* the environment.                                                        *)
(***************************************************************************)
EXTENDS Integers, Sequences, FiniteSets, TLC

\* ---------------------------------------------------------------- bounds
MaxQueries == 3    \* status queries of one attempt
MaxWaits == 2      \* backoff waits of one attempt
MaxTicks == 4      \* clock ticks that the environment adds on its own
MaxHeight == 3     \* block heights the network reports are 0..MaxHeight
TickMs == 400      \* milliseconds of one clock tick

\* ------------------------------------------------------ values of the code
\* `undefined` of an optional number (timeout_in_ms), and `null` of
\* SignatureStatus.confirmations: both are falsy, like 0.
Undefined == -1
Null == -1
NoErr == "null"
UndefinedList == <<>>

Truthy(n) == n # Undefined /\ n # 0

\* The largest timestamp a Date can hold (8640000000000000 in the source);
\* the model's integers are 32 bit, so it is the largest of those: no clock
\* value exceeds it.
max_time == 2147483647

initial_retry_sleep == 400
default_timeout_in_ms == 60000

Supported == {"processed", "confirmed", "finalized"}
Commitments == Supported \cup {"recent"}
Errs == {"InstructionError"}
LastValid == {1, 2}
Heights == 0..MaxHeight
Timeouts == {Undefined, 0, 1000}
Signatures == {"sig1", "sig2"}

\* ------------------------------------------------------- signature status
Unset == [kind |-> "unset", err |-> NoErr, confirmations |-> Null, confirmationStatus |-> "undefined"]
Absent == [kind |-> "null", err |-> NoErr, confirmations |-> Null, confirmationStatus |-> "undefined"]
Landed == [kind : {"status"}, err : {NoErr} \cup Errs, confirmations : {Null, 0, 1},
           confirmationStatus : Supported \cup {"undefined"}]
StatusValues == {Absent} \cup Landed

\* ----------------------------------------------------- CommitmentPolicy
confirmationStatusListConfirmedOnly ==
  [c \in Supported |->
     CASE c = "finalized" -> <<"finalized">>
       [] c = "confirmed" -> <<"confirmed">>
       [] c = "processed" -> <<"confirmed", "finalized", "processed">>]

confirmationStatusList ==
  [c \in Supported |->
     CASE c = "finalized" -> <<"finalized">>
       [] c = "confirmed" -> <<"finalized", "confirmed">>
       [] c = "processed" -> <<"confirmed", "finalized", "processed">>]

\* Map.get: the list, or undefined for a key that is not in the map
MapGetOrFinalized(c) ==
  IF c \in DOMAIN confirmationStatusList THEN confirmationStatusList[c]
  ELSE confirmationStatusList["finalized"]

MapGet(c) ==
  IF c \in DOMAIN confirmationStatusList THEN confirmationStatusList[c] ELSE UndefinedList

\* Array.prototype.includes
includes(list, x) == \E i \in 1..Len(list) : list[i] = x

\* result.confirmations || desired_confirms.includes(result.confirmationStatus)
SufficientConfirmationsOnly(r, desired) == Truthy(r.confirmations)

SufficientLevelOnly(r, desired) == includes(desired, r.confirmationStatus)

Sufficient(r, desired) ==
  Truthy(r.confirmations) \/ includes(desired, r.confirmationStatus)

\* --------------------------------------------------- BlockHeightDropDetector
IsDroppedOffByOne(current, lastValid) == current > lastValid + 1

IsDroppedNonStrict(current, lastValid) == current >= lastValid

IsDropped(current, lastValid) == current > lastValid

\* -------------------------------------------------------- BackoffScheduler
StopTimeUnsetIsEntry(timeout, ts) == IF Truthy(timeout) THEN ts + timeout ELSE ts

StopTime(timeout, ts) == IF Truthy(timeout) THEN ts + timeout ELSE max_time

TimedOut(ts, stop) == ts > stop

\* ------------------------------------------------------------------ state
VARIABLES
  now,                    \* getTimestamp(): the wall clock, in ms
  pc,                     \* where confirmTransaction is
  commitment, lastValidBlockHeight, signature, timeout_in_ms,  \* its arguments
  retry_sleep, stop_time, desired_confirms,                    \* its locals
  entry_time,             \* the getTimestamp() of line 83
  height_commitment,      \* the argument of the last getBlockHeight call
  result, current_block_height,                                \* locals of one iteration
  outcome, value, cause,  \* how the promise settled: resolve(value) / reject(cause)
  emitted,                \* calls of resolve and reject
  last,                   \* the last thing the poller did
  nStatus, nHeight, nFail, waits,   \* queries issued, queries that threw, sleeps done
  sac_pc,                 \* where sendAndConfirmTransaction is ("none": not called)
  nonceInfo, opt_commitment, sac_timeout,          \* its arguments
  fetch_commitment,       \* the argument of the getLatestBlockhash call
  block_info, recentBlockhash, signed, sac_signature,
  nFetch, nSend,          \* getLatestBlockhash and sendRawTransaction calls
  sac_ret, sac_err        \* what it returned / threw

pollerVars == <<pc, commitment, lastValidBlockHeight, signature, timeout_in_ms,
                retry_sleep, stop_time, desired_confirms, entry_time,
                height_commitment, result, current_block_height, outcome, value, cause, emitted, last,
                nStatus, nHeight, nFail, waits>>
sacVars == <<sac_pc, nonceInfo, opt_commitment, sac_timeout, fetch_commitment, block_info,
             recentBlockhash, signed, sac_signature, nFetch, nSend, sac_ret, sac_err>>
vars == <<now, pollerVars, sacVars>>

NoBlockInfo == [blockhash |-> "none", lastValidBlockHeight |-> 0]
BlockInfos == [blockhash : {"bh1"}, lastValidBlockHeight : LastValid]

PollerLocalsInit ==
  /\ retry_sleep = 0 /\ stop_time = 0 /\ desired_confirms = UndefinedList
  /\ entry_time = 0 /\ height_commitment = "none"
  /\ result = Unset /\ current_block_height = Undefined
  /\ outcome = "none" /\ value = Unset /\ cause = "none" /\ emitted = 0
  /\ last = "none" /\ nStatus = 0 /\ nHeight = 0 /\ nFail = 0 /\ waits = 0

SacLocalsInit ==
  /\ fetch_commitment = "none"
  /\ block_info = NoBlockInfo /\ recentBlockhash = "none" /\ signed = FALSE
  /\ sac_signature = "none" /\ nFetch = 0 /\ nSend = 0
  /\ sac_ret = "none" /\ sac_err = "none"

\* a direct call of confirmTransaction
InitDirect ==
  /\ pc = "entry"
  /\ commitment \in Commitments
  /\ lastValidBlockHeight \in LastValid
  /\ signature = "sig1"
  /\ timeout_in_ms \in Timeouts
  /\ sac_pc = "none" /\ nonceInfo = FALSE /\ opt_commitment = "undefined"
  /\ sac_timeout = Undefined

\* a call of sendAndConfirmTransaction; confirmTransaction is not called yet
InitSac ==
  /\ pc = "idle"
  /\ commitment = "finalized" /\ lastValidBlockHeight = 0 /\ signature = "none"
  /\ timeout_in_ms = Undefined
  /\ sac_pc = "start"
  /\ nonceInfo \in BOOLEAN
  /\ opt_commitment \in {"undefined", "confirmed", "recent"}
  /\ sac_timeout \in {1000, default_timeout_in_ms}

Init ==
  /\ now = 0
  /\ PollerLocalsInit
  /\ SacLocalsInit
  /\ (InitDirect \/ InitSac)

\* ------------------------------------------------------- confirmTransaction
\* resolve(v) / reject(c) of the promise: only the first call settles it
Settle(o, v, c) ==
  /\ emitted' = emitted + 1
  /\ outcome' = IF emitted = 0 THEN o ELSE outcome
  /\ value' = IF emitted = 0 THEN v ELSE value
  /\ cause' = IF emitted = 0 THEN c ELSE cause

NoSettle == UNCHANGED <<outcome, value, cause, emitted>>

Args == <<commitment, lastValidBlockHeight, signature, timeout_in_ms>>
Locals == <<retry_sleep, stop_time, desired_confirms, entry_time>>

\* lines 81-88: the locals and the validation of the commitment
confirmTransactionEntry ==
  /\ pc = "entry"
  /\ retry_sleep' = initial_retry_sleep
  /\ entry_time' = now
  /\ stop_time' = StopTime(timeout_in_ms, now)
  /\ desired_confirms' = MapGet(commitment)
  /\ last' = "entry"
  /\ IF MapGet(commitment) = UndefinedList
       THEN /\ pc' = "done"
            /\ outcome' = "UnsupportedCommitment"
            /\ cause' = "unsupported commitment"
            /\ UNCHANGED <<value, emitted>>
       ELSE /\ pc' = "status"
            /\ NoSettle
  /\ UNCHANGED <<now, Args, height_commitment, result, current_block_height,
                 nStatus, nHeight, nFail, waits, sacVars>>

\* lines 148-155: the catch block, then the deadline check
CatchAndReject ==
  /\ nFail' = nFail + 1
  /\ last' = "deadline"
  /\ Settle("UnrecoverableRpcError", Unset, "RpcError")
  /\ pc' = "done"

CatchAndTimeout ==
  /\ nFail' = nFail + 1
  /\ last' = "deadline"
  /\ Settle("Timeout", Unset, "TimeoutError")
  /\ pc' = "done"

CatchAndCheckDeadline ==
  /\ nFail' = nFail + 1
  /\ last' = "deadline"
  /\ IF TimedOut(now, stop_time)
       THEN /\ Settle("Timeout", Unset, "TimeoutError")
            /\ pc' = "done"
       ELSE /\ NoSettle
            /\ pc' = "sleep"

\* line 96 throws
StatusQueryFails ==
  /\ pc = "status" /\ nStatus < MaxQueries
  /\ nStatus' = nStatus + 1
  /\ result' = Unset
  /\ current_block_height' = Undefined
  /\ CatchAndCheckDeadline
  /\ UNCHANGED <<now, Args, Locals, height_commitment, nHeight, waits, sacVars>>

\* lines 96-102 and 123-132: no status, or not confirmed to the level needed:
\* ask for the block height
StatusNeedsHeightOnlyWhenAbsent(r) ==
  /\ \/ r.kind = "null"
     \/ r.kind = "status" /\ r.err = NoErr /\ ~Sufficient(r, desired_confirms)
  /\ result' = r
  /\ last' = "status"
  /\ IF r.kind = "null"
       THEN /\ pc' = "height"
            /\ height_commitment' = commitment
            /\ nHeight' = nHeight + 1
            /\ NoSettle
       ELSE /\ pc' = "done"
            /\ Settle("Confirmed", r, "none")
            /\ UNCHANGED <<nHeight, height_commitment>>

StatusNeedsHeight(r) ==
  /\ \/ r.kind = "null"
     \/ r.kind = "status" /\ r.err = NoErr /\ ~Sufficient(r, desired_confirms)
  /\ result' = r
  /\ last' = "status"
  /\ pc' = "height"
  /\ height_commitment' = commitment
  /\ nHeight' = nHeight + 1
  /\ NoSettle

\* lines 118-121
StatusOnChainErrorChecksHeight(r) ==
  /\ r.kind = "status" /\ r.err # NoErr
  /\ result' = r
  /\ last' = "status"
  /\ NoSettle
  /\ pc' = "height"
  /\ height_commitment' = commitment
  /\ nHeight' = nHeight + 1

StatusOnChainError(r) ==
  /\ r.kind = "status" /\ r.err # NoErr
  /\ result' = r
  /\ last' = "status"
  /\ Settle("OnChainError", Unset, r.err)
  /\ pc' = "done"
  /\ UNCHANGED <<nHeight, height_commitment>>

\* lines 145-147
StatusConfirmed(r) ==
  /\ r.kind = "status" /\ r.err = NoErr /\ Sufficient(r, desired_confirms)
  /\ result' = r
  /\ last' = "status"
  /\ Settle("Confirmed", r, "none")
  /\ pc' = "done"
  /\ UNCHANGED <<nHeight, height_commitment>>

\* line 96 returns
StatusQueryReturns ==
  /\ pc = "status" /\ nStatus < MaxQueries
  /\ nStatus' = nStatus + 1
  /\ \E r \in StatusValues :
       \/ StatusNeedsHeight(r)
       \/ StatusOnChainError(r)
       \/ StatusConfirmed(r)
  /\ current_block_height' = Undefined
  /\ UNCHANGED <<now, Args, Locals, nFail, waits, sacVars>>

\* line 102 / 130 throws
HeightQueryFails ==
  /\ pc = "height"
  /\ current_block_height' = Undefined
  /\ result' = Unset
  /\ CatchAndCheckDeadline
  /\ UNCHANGED <<now, Args, Locals, height_commitment, nStatus, nHeight, waits, sacVars>>

\* lines 105-111 / 133-139: reject and return
RejectDroppedNoReturn(h) ==
  /\ IsDropped(h, lastValidBlockHeight)
  /\ current_block_height' = h
  /\ Settle("Dropped", Unset, "TransactionDroppedError")
  /\ pc' = "status"
  /\ UNCHANGED result

RejectDropped(h) ==
  /\ IsDropped(h, lastValidBlockHeight)
  /\ current_block_height' = h
  /\ Settle("Dropped", Unset, "TransactionDroppedError")
  /\ pc' = "done"
  /\ UNCHANGED result

\* lines 114 / 142: continue, the next iteration starts at once (result and
\* current_block_height keep the values of this iteration until the next
\* status query returns)
Continue(h) ==
  /\ ~IsDropped(h, lastValidBlockHeight)
  /\ current_block_height' = h
  /\ UNCHANGED result
  /\ NoSettle
  /\ pc' = "status"

\* line 102 / 130 returns
HeightQueryReturns ==
  /\ pc = "height"
  /\ last' = "height"
  /\ \E h \in Heights : RejectDropped(h) \/ Continue(h)
  /\ UNCHANGED <<now, Args, Locals, height_commitment, nStatus, nHeight, nFail, waits, sacVars>>

\* lines 157-158: the wait is over (setTimeout waits at least retry_sleep)
Sleep ==
  /\ pc = "sleep" /\ waits < MaxWaits
  /\ now' = now + retry_sleep
  /\ retry_sleep' = retry_sleep * 2
  /\ waits' = waits + 1
  /\ last' = "sleep"
  /\ pc' = "status"
  /\ NoSettle
  /\ UNCHANGED <<Args, stop_time, desired_confirms, entry_time, height_commitment,
                 result, current_block_height,
                 nStatus, nHeight, nFail, sacVars>>

\* the wall clock advances
Tick ==
  /\ now + TickMs <= MaxTicks * TickMs
  /\ now' = now + TickMs
  /\ UNCHANGED <<pollerVars, sacVars>>

\* ------------------------------------------------ sendAndConfirmTransaction
\* lines 182-186
SacNonceCheckFails ==
  /\ sac_pc = "start" /\ nonceInfo
  /\ sac_pc' = "failed"
  /\ sac_err' = "transaction has nonceInfo"
  /\ UNCHANGED <<now, pollerVars, nonceInfo, opt_commitment, sac_timeout, fetch_commitment, block_info,
                 recentBlockhash, signed, sac_signature, nFetch, nSend, sac_ret>>

\* options?.commitment ?? "finalized"
SacCommitment == IF opt_commitment = "undefined" THEN "finalized" ELSE opt_commitment

SacFetchIgnoresNonce ==
  /\ sac_pc = "start"
  /\ sac_pc' = "blockhash"
  /\ nFetch' = nFetch + 1
  /\ fetch_commitment' = SacCommitment
  /\ UNCHANGED <<now, pollerVars, nonceInfo, opt_commitment, sac_timeout, block_info,
                 recentBlockhash, signed, sac_signature, nSend, sac_ret, sac_err>>

\* lines 188-195: getLatestBlockhash is called
SacFetch ==
  /\ sac_pc = "start" /\ ~nonceInfo
  /\ sac_pc' = "blockhash"
  /\ nFetch' = nFetch + 1
  /\ fetch_commitment' = SacCommitment
  /\ UNCHANGED <<now, pollerVars, nonceInfo, opt_commitment, sac_timeout, block_info,
                 recentBlockhash, signed, sac_signature, nSend, sac_ret, sac_err>>

\* line 195 throws
SacFetchFails ==
  /\ sac_pc = "blockhash"
  /\ sac_pc' = "failed"
  /\ sac_err' = "RpcError"
  /\ UNCHANGED <<now, pollerVars, nonceInfo, opt_commitment, sac_timeout, fetch_commitment, block_info,
                 recentBlockhash, signed, sac_signature, nFetch, nSend, sac_ret>>

\* lines 195-202: bind the blockhash, sign, serialize, submit
SacBindSignSend ==
  /\ sac_pc = "blockhash"
  /\ \E b \in BlockInfos :
       /\ block_info' = b
       /\ recentBlockhash' = b.blockhash
  /\ signed' = TRUE
  /\ nSend' = nSend + 1
  /\ sac_pc' = "send"
  /\ UNCHANGED <<now, pollerVars, nonceInfo, opt_commitment, sac_timeout, fetch_commitment,
                 sac_signature, nFetch, sac_ret, sac_err>>

\* line 202 throws
SacSendFails ==
  /\ sac_pc = "send"
  /\ sac_pc' = "failed"
  /\ sac_err' = "RpcError"
  /\ UNCHANGED <<now, pollerVars, nonceInfo, opt_commitment, sac_timeout, fetch_commitment, block_info,
                 recentBlockhash, signed, sac_signature, nFetch, nSend, sac_ret>>

\* lines 202-210: the signature comes back, confirmTransaction is called
SacConfirmDefaultCommitment ==
  /\ sac_pc = "send"
  /\ \E s \in Signatures : sac_signature' = s /\ signature' = s
  /\ lastValidBlockHeight' = block_info.lastValidBlockHeight
  /\ commitment' = "finalized"
  /\ timeout_in_ms' = sac_timeout
  /\ pc' = "entry"
  /\ sac_pc' = "confirm"
  /\ UNCHANGED <<now, Locals, height_commitment, result, current_block_height,
                 outcome, value, cause,
                 emitted, last, nStatus, nHeight, nFail, waits,
                 nonceInfo, opt_commitment, sac_timeout, fetch_commitment, block_info,
                 recentBlockhash, signed, nFetch, nSend, sac_ret, sac_err>>

SacConfirm ==
  /\ sac_pc = "send"
  /\ \E s \in Signatures : sac_signature' = s /\ signature' = s
  /\ lastValidBlockHeight' = block_info.lastValidBlockHeight
  /\ commitment' = SacCommitment
  /\ timeout_in_ms' = sac_timeout
  /\ pc' = "entry"
  /\ sac_pc' = "confirm"
  /\ UNCHANGED <<now, Locals, height_commitment, result, current_block_height,
                 outcome, value, cause,
                 emitted, last, nStatus, nHeight, nFail, waits,
                 nonceInfo, opt_commitment, sac_timeout, fetch_commitment, block_info,
                 recentBlockhash, signed, nFetch, nSend, sac_ret, sac_err>>

\* lines 204-212: the await of confirmTransaction ends; a rejection propagates
SacFinishAlwaysReturns ==
  /\ sac_pc = "confirm" /\ outcome # "none"
  /\ sac_pc' = "returned" /\ sac_ret' = sac_signature /\ UNCHANGED sac_err
  /\ UNCHANGED <<now, pollerVars, nonceInfo, opt_commitment, sac_timeout, fetch_commitment, block_info,
                 recentBlockhash, signed, sac_signature, nFetch, nSend>>

SacFinish ==
  /\ sac_pc = "confirm" /\ outcome # "none"
  /\ IF outcome = "Confirmed"
       THEN sac_pc' = "returned" /\ sac_ret' = sac_signature /\ UNCHANGED sac_err
       ELSE sac_pc' = "failed" /\ sac_err' = cause /\ UNCHANGED sac_ret
  /\ UNCHANGED <<now, pollerVars, nonceInfo, opt_commitment, sac_timeout, fetch_commitment, block_info,
                 recentBlockhash, signed, sac_signature, nFetch, nSend>>

\* ------------------------------------------------------------ specification
Next ==
  \/ confirmTransactionEntry
  \/ StatusQueryFails
  \/ StatusQueryReturns
  \/ HeightQueryFails
  \/ HeightQueryReturns
  \/ Sleep
  \/ Tick
  \/ SacNonceCheckFails
  \/ SacFetch
  \/ SacFetchFails
  \/ SacBindSignSend
  \/ SacSendFails
  \/ SacConfirm
  \/ SacFinish

Spec == Init /\ [][Next]_vars

\* ------------------------------------------------------------------ claims
Terminal == {"Confirmed", "Dropped", "OnChainError", "Timeout"}

\* durability order of the commitment levels
Rank(c) == CASE c = "processed" -> 1 [] c = "confirmed" -> 2 [] c = "finalized" -> 3

\* level L satisfies request R when L is at least as durable as R
Satisfies(L, R) == L \in Supported /\ R \in Supported /\ Rank(L) >= Rank(R)

Elements(list) == {list[i] : i \in 1..Len(list)}

\* C1: at most one terminal outcome is emitted per call, and once it is
\* emitted the poll loop has stopped: no status query, height query, backoff
\* wait or second outcome follows.
C1_OneOutcomeThenStopped ==
  /\ [](emitted <= 1 /\ (emitted = 1 <=> outcome \in Terminal))
  /\ [][outcome # "none" => UNCHANGED pollerVars]_vars

C1_Witness ==
  /\ outcome = "Dropped" /\ emitted = 1 /\ nStatus >= 2
  /\ now > 0 /\ sac_pc = "failed"

\* C2: once the deadline is exceeded, an iteration that finds the status
\* absent or insufficient and the height not above the expiry height ends the
\* attempt with Timeout instead of polling again.
C2_TimeoutWhenDeadlineExceeded ==
  [][(/\ pc = "height"
      /\ TimedOut(now, stop_time)
      /\ last' = "height"
      /\ current_block_height' <= lastValidBlockHeight)
     => (outcome' = "Timeout" /\ pc' = "done")]_vars

\* C3: a status query that returns absent followed by a height query that
\* returns a height above the expiry height gives Dropped, whatever the
\* number of earlier iterations, the elapsed time and the deadline.
C3_AbsentAboveExpiryIsDropped ==
  (/\ last = "height"
   /\ result.kind = "null"
   /\ current_block_height > lastValidBlockHeight)
  => (outcome = "Dropped" /\ pc = "done")

C3_Witness ==
  /\ outcome = "Dropped" /\ result.kind = "null"
  /\ current_block_height = lastValidBlockHeight + 1
  /\ nStatus >= 2 /\ waits >= 1
  /\ TimedOut(now, stop_time)

\* C4: a landed, error-free status whose level is in the satisfied set of the
\* requested commitment gives Confirmed with that status, never Dropped or
\* Timeout, also after the deadline has passed.
C4_SatisfiedStatusIsConfirmed ==
  (/\ last = "status"
   /\ result.kind = "status"
   /\ result.err = NoErr
   /\ Satisfies(result.confirmationStatus, commitment))
  => (outcome = "Confirmed" /\ value = result /\ pc = "done")

C4_Witness ==
  /\ outcome = "Confirmed"
  /\ ~Truthy(value.confirmations)
  /\ Satisfies(value.confirmationStatus, commitment)
  /\ nStatus >= 3
  /\ TimedOut(now, stop_time)

\* C5: Dropped is produced only when the status query of that iteration
\* returned absent, never a landed status.
C5_DroppedOnlyWhenAbsent ==
  outcome = "Dropped" => result.kind = "null"

\* C6: a status carrying an on-chain error gives OnChainError with that cause
\* in the step of the status query itself: no height query, deadline check or
\* backoff wait in between, for every height, count and level.
C6_OnChainErrorAtOnce ==
  [][(nStatus' = nStatus + 1 /\ result'.kind = "status" /\ result'.err # NoErr)
     => (/\ outcome' = "OnChainError" /\ cause' = result'.err /\ pc' = "done"
         /\ last' = "status"
         /\ nHeight' = nHeight /\ nFail' = nFail /\ waits' = waits /\ now' = now)]_vars

C6_Witness ==
  /\ outcome = "OnChainError" /\ cause = "InstructionError"
  /\ result.confirmations = 1 /\ result.confirmationStatus = "finalized"
  /\ nHeight = 0 /\ TimedOut(now, stop_time)

\* C7: queries that fail while the deadline has not passed leave the poller
\* polling with nothing emitted, and a later satisfying status gives Confirmed
\* with that status and no error.
C7_FailuresInvisible ==
  /\ (last = "deadline" /\ ~TimedOut(now, stop_time))
       => (outcome = "none" /\ pc = "sleep")
  /\ (/\ nFail > 0 /\ last = "status"
      /\ result.kind = "status" /\ result.err = NoErr
      /\ Satisfies(result.confirmationStatus, commitment))
       => (outcome = "Confirmed" /\ value = result /\ cause = "none" /\ emitted = 1)

C7_Witness ==
  /\ nFail >= 2 /\ outcome = "Confirmed" /\ cause = "none"
  /\ Satisfies(value.confirmationStatus, commitment)
  /\ waits = nFail

\* C8: the satisfied set is {finalized} for finalized, {finalized, confirmed}
\* for confirmed and all three levels for processed: level L satisfies
\* request R exactly when L is at least as durable as R.
C8_SatisfiedSets ==
  (pc \notin {"idle", "entry"} /\ commitment \in Supported) =>
    /\ commitment = "finalized" => Elements(desired_confirms) = {"finalized"}
    /\ commitment = "confirmed" => Elements(desired_confirms) = {"finalized", "confirmed"}
    /\ commitment = "processed"
         => Elements(desired_confirms) = {"processed", "confirmed", "finalized"}
    /\ \A L \in Supported \cup {"undefined"} :
         includes(desired_confirms, L) <=> Satisfies(L, commitment)

C8_Witness ==
  /\ commitment = "confirmed" /\ outcome = "Confirmed"
  /\ value.confirmationStatus = "finalized" /\ ~Truthy(value.confirmations)

\* C9: a commitment that is not processed, confirmed or finalized fails with
\* the unsupported-commitment error at entry, before any status or height
\* query, and never from inside the poll loop.
C9_UnsupportedFailsFast ==
  /\ (commitment \notin Supported /\ pc \notin {"idle", "entry"})
       => (/\ outcome = "UnsupportedCommitment" /\ pc = "done"
           /\ nStatus = 0 /\ nHeight = 0 /\ waits = 0 /\ emitted = 0)
  /\ outcome = "UnsupportedCommitment"
       => (commitment \notin Supported /\ last = "entry" /\ nStatus = 0)

C9_Witness ==
  /\ outcome = "UnsupportedCommitment" /\ commitment = "recent"
  /\ pc = "done" /\ sac_pc = "failed"

\* C10: sendAndConfirmTransaction returns the signature only after the poller
\* reached Confirmed; when the poller ends in Dropped, Timeout or OnChainError
\* it fails with that outcome and returns no signature.
C10_SignatureOnlyAfterConfirmed ==
  /\ sac_pc = "returned"
       => (outcome = "Confirmed" /\ sac_ret = sac_signature /\ sac_ret = signature)
  /\ sac_ret # "none" => (sac_pc = "returned" /\ outcome = "Confirmed")
  /\ (sac_pc \in {"returned", "failed"} /\ outcome \in {"Dropped", "Timeout", "OnChainError"})
       => (sac_pc = "failed" /\ sac_err = cause /\ sac_ret = "none")

C10_Witness ==
  /\ sac_pc = "failed" /\ outcome = "Timeout" /\ sac_err = "TimeoutError"
  /\ sac_ret = "none" /\ nStatus >= 2

\* a present, error-free status with zero or missing confirmation count and
\* a level outside the satisfied set
Insufficient(r, c) ==
  /\ r.kind = "status" /\ r.err = NoErr
  /\ ~Truthy(r.confirmations)
  /\ ~Satisfies(r.confirmationStatus, c)

\* C11: a transaction that carries durable-nonce information fails before any
\* network interaction: no blockhash is fetched, the transaction is not
\* signed or modified, nothing is submitted and no polling starts.
C11_NonceFailsFast ==
  nonceInfo =>
    /\ sac_pc \in {"start", "failed"}
    /\ sac_pc = "failed" => sac_err = "transaction has nonceInfo"
    /\ nFetch = 0 /\ fetch_commitment = "none" /\ block_info = NoBlockInfo
    /\ recentBlockhash = "none" /\ ~signed
    /\ nSend = 0 /\ sac_signature = "none" /\ sac_ret = "none"
    /\ pc = "idle" /\ nStatus = 0 /\ nHeight = 0 /\ outcome = "none"

C11_Witness ==
  /\ nonceInfo /\ sac_pc = "failed" /\ sac_err = "transaction has nonceInfo"
  /\ now > 0

\* C12: without a timeout Timeout is never produced; for any call Timeout is
\* produced only if a timeout was supplied and the current time strictly
\* exceeds the entry time plus that timeout.
C12_TimeoutOnlyPastDeadline ==
  /\ [](timeout_in_ms = Undefined => outcome # "Timeout")
  /\ [][(outcome' = "Timeout" /\ outcome # "Timeout")
        => (/\ timeout_in_ms # Undefined
            /\ now > entry_time + timeout_in_ms
            /\ now' = now)]_vars

C12_Witness ==
  /\ timeout_in_ms = Undefined /\ sac_pc = "none" /\ entry_time > 0
  /\ nFail >= 2 /\ last = "deadline" /\ pc = "sleep" /\ outcome = "none"
  /\ now >= MaxTicks * TickMs

\* C13: between two consecutive status queries of one attempt the poller
\* checks the deadline, waits for the backoff duration and doubles it: every
\* status query after the first directly follows a backoff wait.
C13_BackoffBetweenStatusQueries ==
  [][(nStatus' = nStatus + 1 /\ nStatus >= 1) => last = "sleep"]_vars

\* C14: Confirmed(status) is produced exactly when a status query returns a
\* present, error-free status with a nonzero confirmation count or a level in
\* the satisfied set; the status is returned unchanged, with no height query,
\* deadline check or wait in that iteration.
C14_ConfirmedExactlyWhenSufficient ==
  [][/\ (outcome' = "Confirmed" /\ outcome = "none")
          <=> (/\ nStatus' = nStatus + 1
               /\ result'.kind = "status" /\ result'.err = NoErr
               /\ \/ Truthy(result'.confirmations)
                  \/ Satisfies(result'.confirmationStatus, commitment))
     /\ (outcome' = "Confirmed" /\ outcome = "none")
          => (/\ value' = result' /\ last' = "status" /\ pc' = "done"
              /\ nHeight' = nHeight /\ nFail' = nFail /\ waits' = waits
              /\ now' = now /\ retry_sleep' = retry_sleep)]_vars

C14_Witness ==
  /\ outcome = "Confirmed" /\ value.confirmations = 1
  /\ value.confirmationStatus = "processed" /\ commitment = "finalized"
  /\ nHeight = 0

\* C15: a present, error-free status with zero or missing confirmation count
\* and a level outside the satisfied set is handled like an absent status:
\* the height is queried at the requested commitment, the outcome is Dropped
\* if it exceeds the expiry height, otherwise the poller keeps polling.
C15_InsufficientLikeAbsent ==
  /\ (last = "status" /\ Insufficient(result, commitment))
       => (pc = "height" /\ outcome = "none" /\ height_commitment = commitment)
  /\ (last = "height" /\ Insufficient(result, commitment))
       => IF current_block_height > lastValidBlockHeight
            THEN outcome = "Dropped" /\ pc = "done"
            ELSE outcome = "none" /\ pc = "status"

C15_Witness ==
  /\ last = "height" /\ Insufficient(result, commitment)
  /\ result.confirmations = 0 /\ result.confirmationStatus = "confirmed"
  /\ outcome = "Dropped" /\ nStatus >= 2

\* C16: every Dropped outcome directly follows a successful height query of
\* the same iteration that returned a height strictly above the expiry
\* height; elapsed time, the deadline and the number of iterations never
\* produce Dropped.
C16_DroppedOnlyByHeight ==
  /\ [](outcome = "Dropped"
          => (last = "height" /\ current_block_height > lastValidBlockHeight))
  /\ [][(outcome' = "Dropped" /\ outcome # "Dropped")
          => (/\ pc = "height" /\ last' = "height"
              /\ current_block_height' > lastValidBlockHeight
              /\ nFail' = nFail /\ now' = now)]_vars

C16_Witness ==
  /\ outcome = "Dropped" /\ last = "height" /\ pc = "done"
  /\ current_block_height = lastValidBlockHeight + 1
  /\ nStatus = 1 /\ nFail = 0 /\ waits = 0
  /\ timeout_in_ms = 1000 /\ ~TimedOut(now, stop_time)

\* C17: a failed status or height query never produces Dropped and never
\* surfaces its cause: the poller keeps polling or, only when the current time
\* exceeds the deadline, ends in Timeout.
C17_FailedQueryOnlyRetriesOrTimesOut ==
  [][(nFail' = nFail + 1)
       => IF now > stop_time
            THEN outcome' = "Timeout" /\ cause' = "TimeoutError" /\ pc' = "done"
            ELSE outcome' = "none" /\ cause' = "none" /\ pc' = "sleep"]_vars

C17_Witness ==
  /\ nFail >= 2 /\ last = "deadline" /\ outcome = "Timeout" /\ nHeight >= 1

\* C18: for every supplied timeout t >= 0 the deadline is the entry time plus
\* t, computed once before the first query and never modified; only without
\* a timeout is the deadline unbounded.
C18_DeadlineIsEntryPlusTimeout ==
  (pc \notin {"idle", "entry"}) =>
    /\ timeout_in_ms # Undefined => stop_time = entry_time + timeout_in_ms
    /\ timeout_in_ms = Undefined => stop_time = max_time

\* C19: the backoff starts at 400 ms and doubles after every retry of any
\* kind: when the k-th retry is about to query, the backoff duration is
\* 400 * 2^k, and the k-th wait lasts 400 * 2^(k-1) ms.
C19_BackoffDoublesEveryRetry ==
  /\ [](pc = "status" => retry_sleep = initial_retry_sleep * 2^nStatus)
  /\ [][waits' = waits + 1 => now' = now + initial_retry_sleep * 2^waits]_vars

\* C20: sendAndConfirmTransaction fetches the blockhash at the requested
\* commitment, binds it and signs, submits once, then polls, each at most
\* once; the poller gets the expiry height of the bound blockhash, the
\* signature of the submission and the commitment of the fetch.
C20_StepsInOrderOnce ==
  (sac_pc # "none") =>
    /\ nFetch <= 1 /\ nSend <= 1
    /\ nFetch = 1 => fetch_commitment = SacCommitment
    /\ signed => (nFetch = 1 /\ recentBlockhash = block_info.blockhash
                  /\ block_info \in BlockInfos)
    /\ nSend = 1 <=> signed
    /\ pc # "idle" =>
         /\ nSend = 1 /\ sac_signature \in Signatures
         /\ lastValidBlockHeight = block_info.lastValidBlockHeight
         /\ signature = sac_signature
         /\ commitment = fetch_commitment
         /\ timeout_in_ms = sac_timeout
    /\ pc = "idle" => (nStatus = 0 /\ nHeight = 0)

C20_Witness ==
  /\ sac_pc = "returned" /\ opt_commitment = "confirmed"
  /\ block_info.lastValidBlockHeight = 2 /\ sac_signature = "sig2"
  /\ nStatus >= 2 /\ nSend = 1

====
